---------------------------- MODULE Spec2Model ----------------------------
(***************************************************************************)
(* cpubench.c: the driver (main), the parallel trial-division prime        *)
(* counter (clc_prime) and the Chudnovsky pi evaluator (clc_pi).           *)
(***************************************************************************)
EXTENDS Integers, Sequences, FiniteSets, TLC

(***************************************************************************)
(* Bounds of the exploration.                                              *)
(***************************************************************************)
\* width of long, unsigned long and unsigned long long (64 in the program)
WordBits == 6
\* largest max handed to clc_prime by the library-level harness
MaxPrime == 30
\* largest max and pool size explored with every assignment and interleaving
MaxPar == 5
MaxThreads == 2
\* calls of one function made in one process by the library-level harness
MaxCalls == 2
\* largest digit count handed to clc_pi by the library-level harness
MaxDigits == 15
\* limbs an mpf value keeps beyond those the requested precision fills
GuardLimbs == 2

RECURSIVE Pow(_, _)
Pow(b, e) == IF e = 0 THEN 1 ELSE b * Pow(b, e - 1)

Modulus == Pow(2, WordBits)
LongMax == (Modulus \div 2) - 1
LongMin == -(Modulus \div 2)
\* int is taken as wide as long: a count passes INT_MAX only once it has
\* been added to more often than the candidates up to MaxPrime allow
IntMax == LongMax

VARIABLES
    \* the host and the build
    numthreads,   \* main: int numthreads = omp_get_max_threads()
    build,        \* "openmp": the pragma is honoured; "serial": it is ignored
    \* main
    mpc,          \* position inside main ("harness": a caller other than main)
    argv,         \* argv[1 .. argc - 1]
    cpvalue, threading, pd, dd,
    status,       \* the exit status of the process, -1 while it runs
    \* clc_prime
    ppc,          \* position inside clc_prime
    max,          \* clc_prime's parameter
    x, y, pnum,   \* the globals x, y, pnum
    tpnums,       \* the global accumulator tpnums
    workers,      \* the team: each thread's private x, y, pnum, tpnums
    \* clc_pi
    pipc,         \* position inside clc_pi
    dgts,         \* clc_pi's parameter
    iters, i, precision,
    total, tmp,   \* the mpf globals total and tmp
    oput, exponent,
    \* the caller's view
    calls,        \* how often each function has been entered
    rets          \* one record per call that returned

hostVars == <<numthreads, build>>
mainVars == <<mpc, argv, cpvalue, threading, pd, dd, status>>
primeVars == <<ppc, max, x, y, pnum, tpnums, workers>>
piVars == <<pipc, dgts, iters, i, precision, total, tmp, oput, exponent>>
vars == <<hostVars, mainVars, primeVars, piVars, calls, rets>>

(***************************************************************************)
(* clc_prime                                                               *)
(***************************************************************************)
\* the elements of a set of numbers in ascending order
Ascending(S) ==
    [k \in 1 .. Cardinality(S) |->
        CHOOSE c \in S : Cardinality({d \in S : d < c}) = k - 1]

\* The candidates the loop "for (x = 2; x <= max; x++)" hands to the team.
\* The bound of the canonical loop is max + 1 in the type of x: when it
\* wraps to 0 the trip count is unspecified, and the team gets either no
\* candidate or every candidate.
IterationSpaces(m) ==
    IF (m + 1) % Modulus = 0
    THEN {{}, 2 .. m}
    ELSE {2 .. m}

\* a thread's private copies (seen: the candidates its x has taken); private(x, y, pnum) leaves them unset and
\* reduction(+:tpnums) starts the private tpnums at 0
NewThread(cands) ==
    [todo |-> Ascending(cands), seen |-> << >>, x |-> 0, y |-> 0, pnum |-> 0, tpnums |-> 0, pc |-> "next"]

\* a schedule that hands every candidate to every thread
TeamShared(n, space, assign) ==
    [w \in 1 .. n |-> NewThread(space)]

\* the team of n threads, each with the candidates assigned to it
Team(n, space, assign) ==
    [w \in 1 .. n |-> NewThread({c \in space : assign[c] = w})]

\* the value main continues at when the function it called returns
Continue(at) == IF mpc = "harness" THEN "harness" ELSE at

\* clc_prime(m) is entered and the parallel region forks
Fork(m) ==
    /\ ppc = "idle" /\ pipc = "idle"
    /\ build = "openmp"
    /\ \E space \in IterationSpaces(m) :
         \E assign \in [space -> 1 .. numthreads] :
            workers' = Team(numthreads, space, assign)
    /\ max' = m
    /\ ppc' = "parallel"
    /\ calls' = [calls EXCEPT !.clc_prime = @ + 1]
    /\ UNCHANGED <<hostVars, x, y, pnum, tpnums, piVars, rets>>

\* for (x = ...; x <= ...; x++) within one thread's share of the candidates
ThreadNext(t) ==
    IF t.todo = << >>
    THEN [t EXCEPT !.pc = "done"]
    ELSE [t EXCEPT !.x = Head(t.todo), !.todo = Tail(t.todo), !.seen = Append(@, Head(t.todo)),
                   !.pnum = 1, !.y = 2, !.pc = "inner"]

\* for (y = 2; y < x; y++) if (x % y == 0) { pnum = 0; break; }
ThreadInner(t) ==
    IF t.y < t.x
    THEN IF t.x % t.y = 0
         THEN [t EXCEPT !.pnum = 0, !.pc = "add"]
         ELSE [t EXCEPT !.y = (t.y + 1) % Modulus]
    ELSE [t EXCEPT !.pc = "add"]

\* a + b in int, for b >= 0.  A sum above INT_MAX is undefined: the build
\* either wraps it or, compiled to trap on overflow, aborts the process.
IntAdd(a, b) ==
    IF a + b > IntMax
    THEN {[trap |-> FALSE, val |-> a + b - Modulus], [trap |-> TRUE, val |-> a]}
    ELSE {[trap |-> FALSE, val |-> a + b]}

\* tpnums = tpnums + pnum, on the thread's private tpnums
ThreadAdd(t) ==
    {[t EXCEPT !.tpnums = s.val, !.pc = IF s.trap THEN "aborted" ELSE "next"] :
        s \in IntAdd(t.tpnums, t.pnum)}

WorkerNext(w) ==
    /\ ppc = "parallel"
    /\ workers[w].pc = "next"
    /\ workers' = [workers EXCEPT ![w] = ThreadNext(workers[w])]
    /\ UNCHANGED <<hostVars, mainVars, ppc, max, x, y, pnum, tpnums, piVars, calls, rets>>

WorkerInner(w) ==
    /\ ppc = "parallel"
    /\ workers[w].pc = "inner"
    /\ workers' = [workers EXCEPT ![w] = ThreadInner(workers[w])]
    /\ UNCHANGED <<hostVars, mainVars, ppc, max, x, y, pnum, tpnums, piVars, calls, rets>>

WorkerAdd(w) ==
    /\ ppc = "parallel"
    /\ workers[w].pc = "add"
    /\ \E t \in ThreadAdd(workers[w]) :
         /\ workers' = [workers EXCEPT ![w] = t]
         /\ ppc' = (IF t.pc = "aborted" THEN "aborted" ELSE ppc)
    /\ UNCHANGED <<hostVars, mainVars, max, x, y, pnum, tpnums, piVars, calls, rets>>

RECURSIVE SumPartial(_, _)
SumPartial(ws, n) == IF n = 0 THEN 0 ELSE ws[n].tpnums + SumPartial(ws, n - 1)

\* a reduction that keeps only the last thread's private copy
ReductionLastOnly(orig, ws) == IntAdd(orig, IF ws = << >> THEN 0 ELSE ws[Len(ws)].tpnums)

\* reduction(+:tpnums): the original tpnums plus every private copy
Reduction(orig, ws) == IntAdd(orig, SumPartial(ws, Len(ws)))

\* the end of the parallel region: the threads join and tpnums is reduced
Join ==
    /\ ppc = "parallel"
    /\ \A w \in DOMAIN workers : workers[w].pc = "done"
    /\ \E s \in Reduction(tpnums, workers) :
         /\ tpnums' = s.val
         /\ ppc' = (IF s.trap THEN "aborted" ELSE "joined")
    /\ UNCHANGED <<hostVars, mainVars, max, x, y, pnum, workers, piVars, calls, rets>>

\* The same loop with the pragma ignored: one thread, the globals themselves.
SerialEnter(m) ==
    /\ ppc = "idle" /\ pipc = "idle"
    /\ build = "serial"
    /\ max' = m
    /\ x' = 2
    /\ ppc' = "test"
    /\ calls' = [calls EXCEPT !.clc_prime = @ + 1]
    /\ UNCHANGED <<hostVars, y, pnum, tpnums, workers, piVars, rets>>

\* x <= max
SerialTest ==
    /\ ppc = "test"
    /\ IF x <= max
       THEN pnum' = 1 /\ y' = 2 /\ ppc' = "inner"
       ELSE ppc' = "joined" /\ UNCHANGED <<y, pnum>>
    /\ UNCHANGED <<hostVars, mainVars, max, x, tpnums, workers, piVars, calls, rets>>

SerialInner ==
    /\ ppc = "inner"
    /\ IF y < x
       THEN IF x % y = 0
            THEN pnum' = 0 /\ ppc' = "add" /\ y' = y
            ELSE y' = (y + 1) % Modulus /\ UNCHANGED <<pnum, ppc>>
       ELSE ppc' = "add" /\ UNCHANGED <<y, pnum>>
    /\ UNCHANGED <<hostVars, mainVars, max, x, tpnums, workers, piVars, calls, rets>>

\* tpnums = tpnums + pnum; x++
SerialAdd ==
    /\ ppc = "add"
    /\ \E s \in IntAdd(tpnums, pnum) :
         /\ tpnums' = s.val
         /\ ppc' = (IF s.trap THEN "aborted" ELSE "test")
         /\ x' = (IF s.trap THEN x ELSE (x + 1) % Modulus)
    /\ UNCHANGED <<hostVars, mainVars, max, y, pnum, workers, piVars, calls, rets>>

\* return tpnums
PrimeReturn ==
    /\ ppc = "joined"
    /\ rets' = Append(rets, [fn |-> "clc_prime", arg |-> max, res |-> tpnums])
    /\ ppc' = "idle"
    /\ mpc' = Continue("after_prime")
    /\ UNCHANGED <<hostVars, argv, cpvalue, threading, pd, dd, status,
                   max, x, y, pnum, tpnums, workers, piVars, calls>>

(***************************************************************************)
(* Arbitrary-precision naturals (GMP's mpz): a sequence of limbs, least    *)
(* significant first, no leading zero limb; the empty sequence is 0.       *)
(* A limb holds four decimal digits.                                       *)
(***************************************************************************)
LimbBase == 10000
LimbDigits == 4

RECURSIVE BigNorm(_)
BigNorm(a) ==
    IF a = << >> THEN << >>
    ELSE IF a[Len(a)] = 0 THEN BigNorm(SubSeq(a, 1, Len(a) - 1))
    ELSE a

RECURSIVE BigFromInt(_)
BigFromInt(n) ==
    IF n = 0 THEN << >> ELSE <<n % LimbBase>> \o BigFromInt(n \div LimbBase)

BigRest(a) == IF a = << >> THEN << >> ELSE Tail(a)
BigLow(a) == IF a = << >> THEN 0 ELSE Head(a)

RECURSIVE BigAddC(_, _, _)
BigAddC(a, b, c) ==
    IF a = << >> /\ b = << >>
    THEN IF c = 0 THEN << >> ELSE <<c>>
    ELSE LET s == BigLow(a) + BigLow(b) + c
         IN  <<s % LimbBase>> \o BigAddC(BigRest(a), BigRest(b), s \div LimbBase)

BigAdd(a, b) == BigAddC(a, b, 0)

RECURSIVE BigSubB(_, _, _)
BigSubB(a, b, br) ==
    IF a = << >> THEN << >>
    ELSE LET s == BigLow(a) - BigLow(b) - br
         IN  IF s < 0
             THEN <<s + LimbBase>> \o BigSubB(Tail(a), BigRest(b), 1)
             ELSE <<s>> \o BigSubB(Tail(a), BigRest(b), 0)

\* a - b, for a >= b
BigSub(a, b) == BigNorm(BigSubB(a, b, 0))

RECURSIVE BigCmpFrom(_, _, _)
BigCmpFrom(a, b, k) ==
    IF k = 0 THEN 0
    ELSE IF a[k] < b[k] THEN -1
    ELSE IF a[k] > b[k] THEN 1
    ELSE BigCmpFrom(a, b, k - 1)

BigCmp(a, b) ==
    IF Len(a) < Len(b) THEN -1
    ELSE IF Len(a) > Len(b) THEN 1
    ELSE BigCmpFrom(a, b, Len(a))

RECURSIVE BigMulLimbC(_, _, _)
BigMulLimbC(a, d, c) ==
    IF a = << >>
    THEN BigFromInt(c)
    ELSE LET s == Head(a) * d + c
         IN  <<s % LimbBase>> \o BigMulLimbC(Tail(a), d, s \div LimbBase)

\* a * d, for one limb d
BigMulLimb(a, d) == IF d = 0 THEN << >> ELSE BigMulLimbC(a, d, 0)

\* a * LimbBase^k
BigShift(a, k) == IF a = << >> THEN << >> ELSE [j \in 1 .. k |-> 0] \o a

\* floor(a / LimbBase^k)
BigDrop(a, k) == IF Len(a) <= k THEN << >> ELSE SubSeq(a, k + 1, Len(a))

RECURSIVE BigMul(_, _)
BigMul(a, b) ==
    IF b = << >> THEN << >>
    ELSE BigAdd(BigMulLimb(a, Head(b)), BigShift(BigMul(a, Tail(b)), 1))

\* the largest t in lo .. hi - 1 with t * b <= r, given lo * b <= r < hi * b
RECURSIVE BigQuotLimb(_, _, _, _)
BigQuotLimb(r, b, lo, hi) ==
    IF hi - lo <= 1 THEN lo
    ELSE LET mid == (lo + hi) \div 2
         IN  IF BigCmp(BigMulLimb(b, mid), r) <= 0
             THEN BigQuotLimb(r, b, mid, hi)
             ELSE BigQuotLimb(r, b, lo, mid)

\* long division, most significant limb first: q holds the quotient limbs
\* found so far and r the remainder of the limbs above a[k]
RECURSIVE BigDivFrom(_, _, _, _, _)
BigDivPut(a, b, k, q, r, t) ==
    IF t = 0
    THEN BigDivFrom(a, b, k - 1, <<0>> \o q, r)
    ELSE BigDivFrom(a, b, k - 1, <<t>> \o q, BigSub(r, BigMulLimb(b, t)))

BigDivLimb(a, b, k, q, r) ==
    BigDivPut(a, b, k, q, r, BigQuotLimb(r, b, 0, LimbBase))

BigDivFrom(a, b, k, q, r) ==
    IF k = 0 THEN q
    ELSE BigDivLimb(a, b, k, q, BigNorm(<<a[k]>> \o r))

\* floor(a / b), for b > 0
BigDiv(a, b) == BigNorm(BigDivFrom(a, b, Len(a), << >>, << >>))

\* Newton's iteration from above: the first r with floor((r + a / r) / 2) >= r
RECURSIVE BigSqrtFrom(_, _)
BigSqrtFrom(a, r) ==
    LET n == BigDiv(BigAdd(r, BigDiv(a, r)), <<2>>)
    IN  IF BigCmp(n, r) >= 0 THEN r ELSE BigSqrtFrom(a, n)

\* the least s with s * s > n, for n < LimbBase^2
IntRootAbove(n) == CHOOSE s \in 1 .. LimbBase : s * s > n /\ (s - 1) * (s - 1) <= n

\* a first guess above sqrt(a), from the top one or two limbs of a
BigSqrtGuess(a) ==
    IF Len(a) % 2 = 0
    THEN BigShift(BigFromInt(IntRootAbove(a[Len(a)] * LimbBase + a[Len(a) - 1])),
                  (Len(a) - 2) \div 2)
    ELSE BigShift(BigFromInt(IntRootAbove(a[Len(a)])), (Len(a) - 1) \div 2)

\* floor(sqrt(a))
BigSqrt(a) == IF a = << >> THEN << >> ELSE BigSqrtFrom(a, BigSqrtGuess(a))

RECURSIVE BigFac(_)
BigFac(n) == IF n = 0 THEN <<1>> ELSE BigMul(BigFac(n - 1), BigFromInt(n))

RECURSIVE BigPow(_, _)
BigPow(a, e) == IF e = 0 THEN <<1>> ELSE BigMul(BigPow(a, e - 1), a)

\* the decimal digits of a, most significant first
RECURSIVE LimbDigitsOf(_, _)
LimbDigitsOf(n, k) ==
    IF k = 0 THEN << >> ELSE LimbDigitsOf(n \div 10, k - 1) \o <<n % 10>>

RECURSIVE IntDigits(_)
IntDigits(n) == IF n = 0 THEN << >> ELSE IntDigits(n \div 10) \o <<n % 10>>

BigDigits(a) ==
    IF a = << >> THEN << >>
    ELSE IntDigits(a[Len(a)]) \o
         [j \in 1 .. LimbDigits * (Len(a) - 1) |->
            LimbDigitsOf(a[Len(a) - 1 - ((j - 1) \div LimbDigits)], LimbDigits)
                [((j - 1) % LimbDigits) + 1]]

(***************************************************************************)
(* GMP's mpf values: sign and magnitude, the magnitude scaled by           *)
(* LimbBase^f for the f fraction limbs of the working precision; every     *)
(* operation truncates, as mpf does.                                       *)
(***************************************************************************)
FZero == [neg |-> FALSE, mag |-> << >>]

FSigned(neg, mag) == [neg |-> neg /\ mag # << >>, mag |-> mag]

\* mpf_set_z
FSetZ(neg, z, f) == FSigned(neg, BigShift(z, f))

\* mpf_set_ui
FSetUi(u, f) == FSetZ(FALSE, BigFromInt(u), f)

\* mpf_div
FDiv(a, b, f) == FSigned(a.neg # b.neg, BigDiv(BigShift(a.mag, f), b.mag))

\* mpf_ui_div
FUiDiv(u, b, f) == FDiv(FSetUi(u, f), b, f)

\* mpf_mul
FMul(a, b, f) == FSigned(a.neg # b.neg, BigDrop(BigMul(a.mag, b.mag), f))

\* mpf_mul_ui
FMulUi(a, u) == FSigned(a.neg, BigMul(a.mag, BigFromInt(u)))

\* mpf_add
FAdd(a, b) ==
    IF a.neg = b.neg THEN FSigned(a.neg, BigAdd(a.mag, b.mag))
    ELSE IF BigCmp(a.mag, b.mag) >= 0 THEN FSigned(a.neg, BigSub(a.mag, b.mag))
    ELSE FSigned(b.neg, BigSub(b.mag, a.mag))

\* mpf_sqrt_ui
FSqrtUi(u, f) == FSigned(FALSE, BigSqrt(BigShift(BigFromInt(u), 2 * f)))

\* the rounding step of mpf_get_str: add one in the last place; a place that
\* reaches the base is dropped, and an all-nines string becomes "1" with the
\* exponent one higher
RECURSIVE RoundUp(_, _)
RoundUp(d, e) ==
    IF d = << >> THEN [str |-> <<1>>, exp |-> e + 1]
    ELSE IF d[Len(d)] = 9 THEN RoundUp(SubSeq(d, 1, Len(d) - 1), e)
    ELSE [str |-> [d EXCEPT ![Len(d)] = d[Len(d)] + 1], exp |-> e]

RECURSIVE StripZeros(_)
StripZeros(d) ==
    IF d # << >> /\ d[Len(d)] = 0 THEN StripZeros(SubSeq(d, 1, Len(d) - 1)) ELSE d

\* mpf_get_str(NULL, &exponent, 10, n, v): at most n digits, most significant
\* first, rounded on the digit after the last one kept, trailing zeros removed
GetStr(v, f, n) ==
    LET d == BigDigits(v.mag)
        e == Len(d) - LimbDigits * f
        r == IF Len(d) > n
             THEN IF d[n + 1] * 2 >= 10
                  THEN RoundUp(SubSeq(d, 1, n), e)
                  ELSE [str |-> SubSeq(d, 1, n), exp |-> e]
             ELSE [str |-> d, exp |-> e]
    IN  IF v.mag = << >> THEN [str |-> << >>, exp |-> 0]
        ELSE [str |-> StripZeros(r.str), exp |-> r.exp]

(***************************************************************************)
(* clc_pi                                                                  *)
(***************************************************************************)
constant1 == 545140134
constant2 == 13591409
constant3 == 640320

RECURSIVE BitLen(_)
BitLen(n) == IF n = 0 THEN 0 ELSE 1 + BitLen(n \div 2)

\* __builtin_clz on a 32-bit unsigned int, for n > 0
Clz(n) == 32 - BitLen(n)

\* a bit scan that rounds the logarithm down
clc_log2Floor(num) == IF num <= 1 THEN 0 ELSE BitLen(num) - 1

clc_log2(num) == IF num <= 1 THEN 0 ELSE 32 - Clz(num - 1)

Iters(d) == (d \div 15) + 1

Precision(d) == (d * clc_log2(10)) + 1

\* Fraction limbs the model keeps for a working precision of prec bits: ten
\* bits carry three decimal digits, and mpf rounds the precision up to whole
\* limbs and keeps GuardLimbs more.
WorkLimbs(prec) == ((((prec * 3) \div 10) + LimbDigits - 1) \div LimbDigits) + GuardLimbs

\* one term of the series: V3 = V1 / V2
Term(k, f) ==
    LET ti == k * 3
        v1 == BigFac(6 * k)
        v2 == BigAdd(BigMul(BigFromInt(constant1), BigFromInt(k)), BigFromInt(constant2))
        v3 == BigFac(ti)
        v4 == BigPow(BigFac(k), 3)
        v5 == BigPow(BigFromInt(constant3), ti)
        v5neg == (ti % 2 = 1)
        V1 == FSetZ(FALSE, BigMul(v1, v2), f)
        V2 == FSetZ(v5neg, BigMul(BigMul(v3, v4), v5), f)
    IN  FDiv(V1, V2, f)


\* The bits GMP can be asked for: the model grants every precision an
\* unsigned long holds.  A digit count that needs more comes from a negative
\* value (or from one no machine has the memory for): dgts * bits + 1 is out
\* of the range of unsigned long and the dgts / 15 rounds of factorials
\* outgrow any memory, so that GMP ends the process in abort() before clc_pi
\* returns.
MaxAllocBits == Modulus - 1

\* the value of precision after the conversion of dgts * bits + 1: undefined
\* when the double is out of range (0 on x86-64, or the low bits)
Converted(prec) ==
    IF prec < Modulus THEN {prec} ELSE {0, prec % Modulus}

\* clc_pi(d) up to the loop: the working precision, tmp = sqrt(10005) * 426880
PiEnter(d) ==
    /\ ppc = "idle" /\ pipc = "idle"
    /\ dgts' = d
    /\ calls' = [calls EXCEPT !.clc_pi = @ + 1]
    /\ iters' = Iters(d)
    /\ precision' \in Converted(Precision(d))
    /\ i' = 0
    /\ IF Precision(d) > MaxAllocBits
       THEN /\ pipc' = "aborted"
            /\ UNCHANGED <<total, tmp>>
       ELSE /\ pipc' = "loop"
            /\ total' = FZero
            /\ tmp' = FMulUi(FSqrtUi(10005, WorkLimbs(Precision(d))), 426880)
    /\ UNCHANGED <<hostVars, primeVars, oput, exponent, rets>>

\* the process dies in abort(): SIGABRT
Abort ==
    /\ pipc = "aborted" \/ ppc = "aborted"
    /\ mpc \in {"in_pi", "in_prime"}
    /\ mpc' = "exit"
    /\ status' = 134
    /\ UNCHANGED <<hostVars, argv, cpvalue, threading, pd, dd, primeVars, piVars, calls, rets>>

\* one round of "for (i = 0x0; i < iters; i++)": total += V3
PiIter ==
    /\ pipc = "loop"
    /\ i < iters
    /\ total' = FAdd(total, Term(i, WorkLimbs(precision)))
    /\ i' = i + 1
    /\ UNCHANGED <<hostVars, mainVars, primeVars, pipc, dgts, iters, precision,
                   tmp, oput, exponent, calls, rets>>

\* total = (1 / total) * tmp; oput = mpf_get_str(NULL, &exponent, 10, dgts, total)
PiFinish ==
    /\ pipc = "loop"
    /\ i >= iters
    /\ LET f == WorkLimbs(precision)
           pi == FMul(FUiDiv(1, total, f), tmp, f)
           str == GetStr(pi, f, dgts)
       IN  /\ total' = pi
           /\ oput' = str.str
           /\ exponent' = str.exp
    /\ pipc' = "done"
    /\ UNCHANGED <<hostVars, mainVars, primeVars, dgts, iters, i, precision, tmp, calls, rets>>

\* mpf_clears(...); return oput
PiReturn ==
    /\ pipc = "done"
    /\ rets' = Append(rets, [fn |-> "clc_pi", arg |-> dgts, res |-> oput])
    /\ total' = FZero
    /\ tmp' = FZero
    /\ pipc' = "idle"
    /\ mpc' = Continue("after_pi")
    /\ UNCHANGED <<hostVars, argv, cpvalue, threading, pd, dd, status, primeVars,
                   dgts, iters, i, precision, oput, exponent, calls>>

\* clc_prime(m) is entered in the build at hand
PrimeEnter(m) == Fork(m) \/ SerialEnter(m)

(***************************************************************************)
(* main                                                                    *)
(***************************************************************************)
DigitOf ==
    [c \in {"0", "1", "2", "3", "4", "5", "6", "7", "8", "9"} |->
        CASE c = "0" -> 0 [] c = "1" -> 1 [] c = "2" -> 2 [] c = "3" -> 3
          [] c = "4" -> 4 [] c = "5" -> 5 [] c = "6" -> 6 [] c = "7" -> 7
          [] c = "8" -> 8 [] c = "9" -> 9]

RECURSIVE SkipSpace(_)
SkipSpace(s) == IF s # << >> /\ Head(s) = " " THEN SkipSpace(Tail(s)) ELSE s

\* the digits at the front of s, accumulated onto acc and held at limit
RECURSIVE StrtolDigits(_, _, _)
StrtolDigits(s, acc, limit) ==
    IF s = << >> \/ Head(s) \notin DOMAIN DigitOf
    THEN acc
    ELSE LET nxt == acc * 10 + DigitOf[Head(s)]
         IN  StrtolDigits(Tail(s), IF nxt > limit THEN limit ELSE nxt, limit)

\* strtol(s, &tmp_ptr, 10): white space, a sign, digits; 0 when there is no
\* digit; LONG_MAX or LONG_MIN when the digits do not fit
Strtol(s) ==
    LET t == SkipSpace(s)
    IN  IF t # << >> /\ Head(t) = "-"
        THEN -StrtolDigits(Tail(t), 0, -LongMin)
        ELSE IF t # << >> /\ Head(t) = "+"
             THEN StrtolDigits(Tail(t), 0, LongMax)
             ELSE StrtolDigits(t, 0, LongMax)

\* the conversion of a long to unsigned long
ToUnsigned(v) == v % Modulus

\* argc == 4 && argv[3] is one of the three parameters
Accepted(av) ==
    /\ Len(av) + 1 = 4
    /\ av[3] \in {"--printdigits", "--nodigits", "--dumpdigits"}

\* the flag decoded with the first assignment taken where it says "single"
ThreadingFirst(flag) ==
    IF flag = "--singlethreaded" THEN 1 ELSE 0

\* threading is assigned twice; the second assignment is the one that stays
Threading(flag) ==
    LET first == IF flag = "--singlethreaded" THEN 1 ELSE 0
        second == IF flag = "--multithreaded" THEN 0 ELSE 1
    IN  second

\* "Parse command line": the assignments, or the usage error and exit(1)
MainParse ==
    /\ mpc = "parse"
    /\ IF Accepted(argv)
       THEN /\ cpvalue' = ToUnsigned(Strtol(argv[1]))
            /\ threading' = Threading(argv[2])
            /\ pd' = (IF argv[3] = "--printdigits" THEN 1 ELSE 0)
            /\ dd' = (IF argv[3] = "--dumpdigits" THEN 1 ELSE 0)
            /\ mpc' = "check"
            /\ UNCHANGED status
       ELSE /\ status' = 1
            /\ mpc' = "exit"
            /\ UNCHANGED <<cpvalue, threading, pd, dd>>
    /\ UNCHANGED <<hostVars, argv, primeVars, piVars, calls, rets>>

\* "Check if digits isnt zero or below": if (cpvalue < 1) exit(1)
MainCheck ==
    /\ mpc = "check"
    /\ IF cpvalue < 1
       THEN status' = 1 /\ mpc' = "exit"
       ELSE mpc' = "dispatch" /\ UNCHANGED status
    /\ UNCHANGED <<hostVars, argv, cpvalue, threading, pd, dd, primeVars, piVars, calls, rets>>

\* if (threading == 1) clc_pi(cpvalue)
MainCallPi ==
    /\ mpc = "dispatch"
    /\ threading = 1
    /\ PiEnter(cpvalue)
    /\ mpc' = "in_pi"
    /\ UNCHANGED <<argv, cpvalue, threading, pd, dd, status>>

\* else if (threading == 0) clc_prime(cpvalue)
MainCallPrime ==
    /\ mpc = "dispatch"
    /\ threading # 1
    /\ threading = 0
    /\ PrimeEnter(cpvalue)
    /\ mpc' = "in_prime"
    /\ UNCHANGED <<argv, cpvalue, threading, pd, dd, status>>

\* the digits are printed and dumped: exit(-1) when pidigits.txt cannot be
\* opened, else the checksum, "Goodbye!" and return 0
MainAfterPi ==
    /\ mpc = "after_pi"
    /\ \/ dd = 1 /\ status' = 255
       \/ status' = 0
    /\ mpc' = "exit"
    /\ UNCHANGED <<hostVars, argv, cpvalue, threading, pd, dd, primeVars, piVars, calls, rets>>

\* the total and its checksum are printed, "Goodbye!" and return 0
MainAfterPrime ==
    /\ mpc = "after_prime"
    /\ status' = 0
    /\ mpc' = "exit"
    /\ UNCHANGED <<hostVars, argv, cpvalue, threading, pd, dd, primeVars, piVars, calls, rets>>

(***************************************************************************)
(* Initial states and specifications                                       *)
(***************************************************************************)
\* the globals as the loader leaves them, and main's locals as initialised
InitGlobals ==
    /\ x = 0 /\ y = 0 /\ pnum = 0 /\ tpnums = 0
    /\ workers = << >>
    /\ ppc = "idle"
    /\ max = 0
    /\ pipc = "idle"
    /\ dgts = 0 /\ iters = 0 /\ i = 0 /\ precision = 0
    /\ total = FZero /\ tmp = FZero
    /\ oput = << >> /\ exponent = 0
    /\ cpvalue = 10000 % Modulus
    /\ threading = 0 /\ pd = 0 /\ dd = 0
    /\ status = -1
    /\ calls = [clc_pi |-> 0, clc_prime |-> 0]
    /\ rets = << >>

Builds == {"openmp", "serial"}

\* the value arguments tried on the command line
Values ==
    { << >>, <<"0">>, <<"x">>, <<"-">>, <<"-", "0">>, <<"-", "x">>,
      <<"2">>, <<"+", "2">>, <<" ", "2">>, <<"2", "x">>, <<"0", "2">>,
      <<"2", "2">>, <<"4", "0">>, <<"-", "2">>, <<"-", "2", "2">>, <<"-", "4", "0">> }

Flags == {"--singlethreaded", "--multithreaded", "--turbo"}

Params == {"--printdigits", "--nodigits", "--dumpdigits", "--quiet"}

\* argv[1 .. argc - 1] for argc = 3, 4 and 5
CommandLines ==
    {<<v, t>> : v \in Values, t \in Flags}
        \cup {<<v, t, p>> : v \in Values, t \in Flags, p \in Params}
        \cup {<<v, t, p, p>> : v \in {<<"2">>}, t \in Flags, p \in Params}

\* the program run from the command line on a host with one processor
Init ==
    /\ InitGlobals
    /\ numthreads = 1
    /\ build \in Builds
    /\ mpc = "parse"
    /\ argv \in CommandLines

PrimeSteps ==
    \/ \E w \in DOMAIN workers : WorkerNext(w)
    \/ \E w \in DOMAIN workers : WorkerInner(w)
    \/ \E w \in DOMAIN workers : WorkerAdd(w)
    \/ Join
    \/ SerialTest
    \/ SerialInner
    \/ SerialAdd
    \/ PrimeReturn

PiSteps ==
    \/ PiIter
    \/ PiFinish
    \/ PiReturn

Next ==
    \/ MainParse
    \/ MainCheck
    \/ MainCallPi
    \/ MainCallPrime
    \/ MainAfterPi
    \/ MainAfterPrime
    \/ Abort
    \/ PiSteps
    \/ PrimeSteps

Spec == Init /\ [][Next]_vars

\* The two functions called as a library: any first call, then the same call
\* again, in one process.
InitLib ==
    /\ InitGlobals
    /\ numthreads = 1
    /\ build \in Builds
    /\ mpc = "harness"
    /\ argv = << >>

Repeats(fn, arg) ==
    /\ Len(rets) < MaxCalls
    /\ rets # << >> => (rets[1].fn = fn /\ rets[1].arg = arg)

LibCallPrime ==
    /\ \E m \in 0 .. MaxPrime : Repeats("clc_prime", m) /\ PrimeEnter(m)
    /\ UNCHANGED mainVars

LibCallPi ==
    /\ \E d \in 1 .. MaxDigits : Repeats("clc_pi", d) /\ PiEnter(d)
    /\ UNCHANGED mainVars

NextLib ==
    \/ LibCallPrime
    \/ LibCallPi
    \/ PiSteps
    \/ PrimeSteps

SpecLib == InitLib /\ [][NextLib]_vars

\* clc_prime called once by a team of any size, with every assignment of the
\* candidates and every interleaving of the threads.
InitPar ==
    /\ InitGlobals
    /\ numthreads \in 1 .. MaxThreads
    /\ build = "openmp"
    /\ mpc = "harness"
    /\ argv = << >>

ParCallPrime ==
    /\ calls.clc_prime < 1
    /\ \E m \in 0 .. MaxPar : Fork(m)
    /\ UNCHANGED mainVars

NextPar ==
    \/ ParCallPrime
    \/ \E w \in DOMAIN workers : WorkerNext(w)
    \/ \E w \in DOMAIN workers : WorkerInner(w)
    \/ \E w \in DOMAIN workers : WorkerAdd(w)
    \/ Join
    \/ PrimeReturn

SpecPar == InitPar /\ [][NextPar]_vars

\* clc_prime called once with any max of its parameter's type; every thread
\* that can take a step eventually takes one.
LiveCallPrime ==
    /\ calls.clc_prime < 1
    /\ \E m \in 0 .. Modulus - 1 : PrimeEnter(m)
    /\ UNCHANGED mainVars

NextLive ==
    \/ LiveCallPrime
    \/ PrimeSteps

SpecLive == InitLib /\ [][NextLive]_vars /\ WF_vars(NextLive)

(***************************************************************************)
(* Reference values the claims compare the program with                    *)
(***************************************************************************)
\* the primes p with 2 <= p <= m
PrimeCount(m) ==
    Cardinality({p \in 2 .. m : \A d \in 2 .. p - 1 : p % d # 0})

\* the decimal expansion of pi
PiDigits ==
    <<3, 1, 4, 1, 5, 9, 2, 6, 5, 3, 5, 8, 9, 7, 9, 3, 2, 3, 8, 4, 6, 2, 6, 4, 3, 3, 8, 3, 2, 7, 9, 5>>

\* the smallest p >= q with 2^p >= ten, for pw = 2^q
RECURSIVE CeilLog2From(_, _, _)
CeilLog2From(pw, q, ten) ==
    IF BigCmp(pw, ten) >= 0 THEN q ELSE CeilLog2From(BigMulLimb(pw, 2), q + 1, ten)

\* the smallest p with 2^p >= 10^n, which is ceil(n * log2(10))
CeilLog2Pow10(n) == CeilLog2From(<<1>>, 0, BigPow(BigFromInt(10), n))

\* a thread run alone until it has no candidate left
RECURSIVE RunThread(_)
RunThread(t) ==
    IF t.pc = "next" THEN RunThread(ThreadNext(t))
    ELSE IF t.pc = "inner" THEN RunThread(ThreadInner(t))
    ELSE IF t.pc = "add" THEN RunThread(CHOOSE n \in ThreadAdd(t) : n.pc = "next")
    ELSE t

\* what a team of one thread returns for max = m when tpnums starts at 0
OneWorkerTotal(m) ==
    (CHOOSE s \in Reduction(0, <<RunThread(NewThread(2 .. m))>>) : ~s.trap).val

Returned(fn) == {k \in DOMAIN rets : rets[k].fn = fn}

NoCall == calls.clc_pi = 0 /\ calls.clc_prime = 0

(***************************************************************************)
(* C1: the first call of clc_prime(max) in a process returns the number of *)
(* primes p with 2 <= p <= max, for every max of the parameter's type.     *)
(* Refuted at max = Modulus - 1, where the OpenMP build hands out no       *)
(* candidate and returns 0.                                                *)
(***************************************************************************)
C1_FirstCallCountsPrimes ==
    (rets # << >> /\ rets[1].fn = "clc_prime") => rets[1].res = PrimeCount(rets[1].arg)

\* C1: below the wrap the first call does return the count, e.g. 10 for 30
C1_Witness ==
    /\ rets # << >>
    /\ rets[1] = [fn |-> "clc_prime", arg |-> 30, res |-> 10]

(***************************************************************************)
(* C2: for a fixed max the value clc_prime(max) returns is the same for    *)
(* every team size, every assignment of the candidates to the threads and  *)
(* every interleaving: it is the value a team of one thread returns.       *)
(***************************************************************************)
C2_SameTotalForEveryTeam ==
    \A k \in Returned("clc_prime") : rets[k].res = OneWorkerTotal(rets[k].arg)

\* C2: a call has returned in which two threads each counted a prime
C2_Witness ==
    /\ Returned("clc_prime") # {}
    /\ numthreads = 2
    /\ \A w \in DOMAIN workers : workers[w].tpnums > 0

(***************************************************************************)
(* C3: clc_pi(n) returns exactly n decimal digits, equal to the first n    *)
(* digits of pi, with exponent 1.  Refuted: the last digit is rounded      *)
(* (n = 4 gives 3142) and trailing zeros are dropped.                      *)
(***************************************************************************)
C3_ExactDigitsOfPi ==
    pipc = "done" =>
        /\ Len(oput) = dgts
        /\ oput = SubSeq(PiDigits, 1, dgts)
        /\ exponent = 1

\* C3: a call has produced its digits where the next digit of pi is 5 or more
C3_Witness ==
    /\ pipc = "done"
    /\ dgts = 4
    /\ oput = <<3, 1, 4, 2>>

(***************************************************************************)
(* C4: a value argument that parses to zero or to a negative number makes  *)
(* the driver exit with a failure status without starting clc_pi or        *)
(* clc_prime.  Refuted for negative values: cpvalue is unsigned.           *)
(***************************************************************************)
C4_NonPositiveRejected ==
    (Accepted(argv) /\ Strtol(argv[1]) <= 0 /\ mpc # "parse") =>
        /\ NoCall
        /\ mpc \in {"check", "exit"}
        /\ mpc = "exit" => status = 1

\* C4: the value 0 is rejected with status 1 and no call
C4_Witness ==
    /\ Accepted(argv) /\ Strtol(argv[1]) = 0
    /\ mpc = "exit" /\ status = 1 /\ NoCall

(***************************************************************************)
(* C5: two calls of the same function with the same argument in one        *)
(* process return the same value.  Refuted for clc_prime: tpnums keeps the *)
(* first call's count.                                                     *)
(***************************************************************************)
C5_RepeatedCallSameResult ==
    \A j, k \in DOMAIN rets :
        (rets[j].fn = rets[k].fn /\ rets[j].arg = rets[k].arg) => rets[j].res = rets[k].res

\* C5: clc_pi called twice with the same digit count returned the same digits
C5_Witness ==
    /\ Len(rets) = 2
    /\ rets[1].fn = "clc_pi" /\ rets[2] = rets[1]

(***************************************************************************)
(* C6: an accepted command line with value >= 1 calls exactly one of       *)
(* clc_pi and clc_prime exactly once (clc_pi for --singlethreaded,         *)
(* clc_prime for --multithreaded); every other command line exits with     *)
(* status 1 and calls neither.  Refuted by the negative values of C4.      *)
(***************************************************************************)
C6_ExactlyOneCall ==
    mpc = "exit" =>
        IF Accepted(argv) /\ Strtol(argv[1]) >= 1
        THEN /\ calls.clc_pi + calls.clc_prime = 1
             /\ argv[2] = "--singlethreaded" => calls.clc_pi = 1
             /\ argv[2] = "--multithreaded" => calls.clc_prime = 1
        ELSE status = 1 /\ NoCall

\* C6: a run with value >= 1 has ended after its one call
C6_Witness ==
    /\ mpc = "exit" /\ status = 0
    /\ Accepted(argv) /\ Strtol(argv[1]) >= 1
    /\ calls.clc_prime = 1 /\ calls.clc_pi = 0
    /\ Len(rets) = 1

(***************************************************************************)
(* C7: once started, clc_prime(max) returns (or the process fails          *)
(* fatally) for every max of its parameter's type.  Refuted at             *)
(* max = Modulus - 1 in the build without OpenMP: x <= max never fails.    *)
(***************************************************************************)
C7_PrimeTerminates ==
    [](ppc \notin {"idle", "aborted"} => <>(ppc \in {"idle", "aborted"}))

\* C7: a call with the largest max below the wrap has returned
C7_Witness ==
    /\ rets # << >>
    /\ rets[1].fn = "clc_prime" /\ rets[1].arg = Modulus - 2
    /\ build = "serial"

(***************************************************************************)
(* C8 as stated: the working precision is ceil(N * log2(10)) + 1 bits.     *)
(***************************************************************************)
C8_PrecisionIsCeilOfProduct ==
    pipc = "loop" => precision = CeilLog2Pow10(dgts) + 1

(***************************************************************************)
(* C8 amended: the working precision is N * ceil(log2(10)) + 1 = 4 N + 1   *)
(* bits, which is at least ceil(N * log2(10)) + 1 and equals it only for   *)
(* N = 1.                                                                  *)
(***************************************************************************)
C8_PrecisionIsFourBitsPerDigit ==
    pipc = "loop" =>
        /\ precision = dgts * CeilLog2Pow10(1) + 1
        /\ precision = 4 * dgts + 1
        /\ precision >= CeilLog2Pow10(dgts) + 1
        /\ (precision = CeilLog2Pow10(dgts) + 1) <=> (dgts = 1)

\* C8: clc_pi has set the precision for a digit count where the two differ
C8_Witness ==
    /\ pipc = "loop"
    /\ dgts = 2
    /\ precision = 9
    /\ CeilLog2Pow10(2) + 1 = 8

(***************************************************************************)
(* C9: in the parallel phase a step of a thread changes that thread's      *)
(* private x, y, pnum and count only and leaves the shared tpnums alone;   *)
(* every candidate in [2, max] is taken by exactly one thread; tpnums is   *)
(* written once, after every thread has finished, with the sum of the      *)
(* private counts.                                                         *)
(***************************************************************************)
TakenBy(c) ==
    {<<w, k>> \in (DOMAIN workers) \X (1 .. MaxPar) :
        k <= Len(workers[w].seen) /\ workers[w].seen[k] = c}

C9_EachCandidateOnce ==
    ppc = "joined" => \A c \in 2 .. max : Cardinality(TakenBy(c)) = 1

C9_OwnCopiesOnly ==
    (ppc = "parallel" /\ ppc' = "parallel") =>
        /\ UNCHANGED <<x, y, pnum, tpnums>>
        /\ Cardinality({w \in DOMAIN workers : workers'[w] # workers[w]}) <= 1

C9_ReducedAfterJoin ==
    (tpnums' # tpnums) =>
        /\ \A w \in DOMAIN workers : workers[w].pc = "done"
        /\ tpnums' = tpnums + SumPartial(workers, Len(workers))

C10_ModeFollowsMultithreaded ==
    /\ (Accepted(argv) /\ mpc # "parse") =>
            threading = (IF argv[2] = "--multithreaded" THEN 0 ELSE 1)
    /\ calls.clc_prime > 0 => argv[2] = "--multithreaded"
    /\ calls.clc_pi > 0 => argv[2] # "--multithreaded"
    /\ (Accepted(argv) /\ mpc = "exit" /\ cpvalue >= 1) =>
            calls.clc_pi + calls.clc_prime = 1

\* C10: clc_pi runs for a flag that is neither documented one
C10_Witness ==
    /\ argv[2] = "--turbo"
    /\ mpc = "in_pi"
    /\ calls.clc_pi = 1

=============================================================================
